---- MODULE Spec2Model ----
(***************************************************************************)
(* Model of main.py: the one-way folder mirror replicate_source.           *)
(*                                                                         *)
(* A path string is a sequence of one-character strings, so that           *)
(* str.replace and os.path.join are computed on characters as Python       *)
(* computes them.  The filesystem maps a resolved path (the sequence of    *)
(* the path's non-empty components) to the entry stored there.             *)
(*                                                                         *)
(* The library calls (os.walk, os.makedirs, shutil.copy2, os.remove,       *)
(* shutil.rmtree, os.path) are modelled by what CPython's posix            *)
(* implementations do, failures included: an exception that nothing        *)
(* catches ends the process (pc = "crashed", or "interrupted" when it is a  *)
(* KeyboardInterrupt).  In the default specification the user changes      *)
(* source only while the program sleeps; the roots and the log directory   *)
(* are distinct directories next to each other, each of which may be       *)
(* missing when the program starts.                                        *)
(***************************************************************************)
EXTENDS Integers, Sequences, FiniteSets, TLC

\* ---------------------------------------------------------------- bounds
MaxEntries == 3      \* entries besides the two roots, in an initial state and
                     \* after the user has added one
MaxEdits == 1        \* changes the user makes to source between two passes
MaxMtime == 2        \* modification times are 1..MaxMtime
MaxContent == 2      \* file contents are 1..MaxContent
RecursionLimit == 2  \* nested calls of replicate_source the interpreter allows
                     \* (sys.getrecursionlimit() is 1000 by default)

Names == {"a", "b"}  \* entry names (one character each)
Sep == "/"

\* The roots the driver is started with in the default specification.
SourceArg == <<"/", "s">>
ReplicaArg == <<"/", "r">>
LogArg == <<"/", "l">>
\* The directories those strings denote.
SourceDir == << <<"s">> >>
ReplicaDir == << <<"r">> >>
LogDir == << <<"l">> >>
\* The name of the log file inside the log directory.
LogName == <<"L", "o", "g">>
\* Root strings of the specification that varies the spelling of the roots.
SourceArgs == { <<"/", "s">>, <<"/", "s", "/">> }
ReplicaArgs == { <<"/", "r">>, <<"/", "r", "/">> }

\* Time stamped on a directory when an entry is added to or removed from it.
Now == MaxMtime

\* The content of a file that is not a complete copy of a file of source.
Other == 0

\* ------------------------------------------------------- string functions
\* s[i..] starts with t
StartsAt(s, i, t) ==
  /\ i + Len(t) - 1 <= Len(s)
  /\ \A k \in 1..Len(t) : s[i + k - 1] = t[k]

\* str.find: the first index at which old occurs in s, 0 when it does not
Find(s, old) ==
  LET hits == {i \in 1..(Len(s) + 1) : StartsAt(s, i, old)}
  IN IF hits = {} THEN 0 ELSE CHOOSE i \in hits : \A j \in hits : i <= j

\* Replace with its last two arguments exchanged (the call of the other loop)
ReplaceSwapped(s, old, new) ==
  LET i == Find(s, new)
  IN IF i = 0 THEN s
     ELSE SubSeq(s, 1, i - 1) \o old \o SubSeq(s, i + Len(new), Len(s))

\* s.replace(old, new, 1)
Replace(s, old, new) ==
  LET i == Find(s, old)
  IN IF i = 0 THEN s
     ELSE SubSeq(s, 1, i - 1) \o new \o SubSeq(s, i + Len(old), Len(s))

\* os.path.join(a, b) (posixpath)
Join(a, b) ==
  IF Len(b) > 0 /\ b[1] = Sep THEN b
  ELSE IF Len(a) = 0 \/ a[Len(a)] = Sep THEN a \o b
  ELSE a \o <<Sep>> \o b

\* The components of a path string: split on the separator, empty ones dropped
\* (the kernel's path resolution of an absolute path without . and ..).
RECURSIVE SplitFrom(_, _, _, _)
SplitFrom(s, i, cur, acc) ==
  IF i > Len(s) THEN (IF cur = <<>> THEN acc ELSE Append(acc, cur))
  ELSE IF s[i] = Sep
       THEN SplitFrom(s, i + 1, <<>>, IF cur = <<>> THEN acc ELSE Append(acc, cur))
       ELSE SplitFrom(s, i + 1, Append(cur, s[i]), acc)

Resolve(s) == SplitFrom(s, 1, <<>>, <<>>)

\* os.path.basename: what follows the last separator
Basename(s) ==
  LET seps == {i \in 1..Len(s) : s[i] = Sep}
      last == IF seps = {} THEN 0 ELSE CHOOSE i \in seps : \A j \in seps : j <= i
  IN SubSeq(s, last + 1, Len(s))

\* ----------------------------------------------------- filesystem functions
IsPrefix(p, q) == Len(p) <= Len(q) /\ SubSeq(q, 1, Len(p)) = p
Parent(p) == SubSeq(p, 1, Len(p) - 1)

DirEntry(m) == [kind |-> "dir", mtime |-> m, content |-> 0]
FileEntry(m, c) == [kind |-> "file", mtime |-> m, content |-> c]

\* the filesystem root "/" always exists and is a directory
IsDirAt(f, p) == p = <<>> \/ (p \in DOMAIN f /\ f[p].kind = "dir")
IsFileAt(f, p) == p \in DOMAIN f /\ f[p].kind = "file"

\* os.path.exists
Exists(f, s) == Resolve(s) = <<>> \/ Resolve(s) \in DOMAIN f
\* os.path.isdir
IsDir(f, s) == IsDirAt(f, Resolve(s))
\* os.path.getmtime of an existing entry
GetMtime(f, s) == f[Resolve(s)].mtime

\* f with the entry e stored at p; a new name in a directory stamps the directory
Put(f, p, e) ==
  [q \in DOMAIN f \cup {p} |->
     IF q = p THEN e
     ELSE IF q = Parent(p) /\ p \notin DOMAIN f THEN [f[q] EXCEPT !.mtime = Now]
     ELSE f[q]]

\* f without p and everything below it; the directory that held p is stamped
Drop(f, p) ==
  [q \in {x \in DOMAIN f : ~IsPrefix(p, x)} |->
     IF q = Parent(p) THEN [f[q] EXCEPT !.mtime = Now] ELSE f[q]]

\* one string per name in the directory p, the names as the walk reports them
ChildrenOf(f, p) == {q \in DOMAIN f : Len(q) = Len(p) + 1 /\ IsPrefix(p, q)}
SubdirNames(f, p) == {q[Len(q)] : q \in {x \in ChildrenOf(f, p) : f[x].kind = "dir"}}
NondirNames(f, p) == {q[Len(q)] : q \in {x \in ChildrenOf(f, p) : f[x].kind = "file"}}

\* every ordering of a finite set (the order of a directory listing is the
\* filesystem's, not the program's)
Orderings(S) ==
  {q \in [1..Cardinality(S) -> S] : \A i, j \in 1..Cardinality(S) : i # j => q[i] # q[j]}

\* os.makedirs(s): succeeds when s does not exist and no existing prefix of it
\* is a file; it creates every missing level.
MakedirsOk(f, s) ==
  LET p == Resolve(s)
  IN /\ p # <<>>
     /\ p \notin DOMAIN f
     /\ \A k \in 0..(Len(p) - 1) :
          LET a == SubSeq(p, 1, k) IN a = <<>> \/ a \notin DOMAIN f \/ f[a].kind = "dir"

RECURSIVE MakeLevels(_, _, _)
MakeLevels(f, p, k) ==
  IF k > Len(p) THEN f
  ELSE LET a == SubSeq(p, 1, k)
       IN MakeLevels(IF a \in DOMAIN f THEN f ELSE Put(f, a, DirEntry(Now)), p, k + 1)

Makedirs(f, s) == MakeLevels(f, Resolve(s), 1)

\* shutil.copy2(src, dst): a directory as dst means dst/basename(src); the
\* source must be a file, the target's directory must exist and the target must
\* not be a directory.  Content and modification time are those of src.
Copy2Target(f, src, dst) == IF IsDir(f, dst) THEN Join(dst, Basename(src)) ELSE dst

Copy2Ok(f, src, dst) ==
  LET t == Resolve(Copy2Target(f, src, dst))
  IN /\ IsFileAt(f, Resolve(src))
     /\ t # <<>>
     /\ IsDirAt(f, Parent(t))
     /\ ~IsDirAt(f, t)

\* Copy2 as a move (shutil.move): the file copied is removed from where it was
Copy2AsMove(f, src, dst) ==
  LET e == f[Resolve(src)]
  IN Drop(Put(f, Resolve(Copy2Target(f, src, dst)), FileEntry(e.mtime, e.content)),
          Resolve(src))

Copy2(f, src, dst) ==
  LET e == f[Resolve(src)]
  IN Put(f, Resolve(Copy2Target(f, src, dst)), FileEntry(e.mtime, e.content))

\* os.remove(s): s must be a file
RemoveOk(f, s) == IsFileAt(f, Resolve(s))
Remove(f, s) == Drop(f, Resolve(s))

\* shutil.rmtree(s): s must be a directory
RmtreeOk(f, s) == Resolve(s) # <<>> /\ IsDir(f, s)
Rmtree(f, s) == Drop(f, Resolve(s))

\* ------------------------------------------------------------ tree views
\* the entries below the directory base, keyed by their path relative to it
RelTree(f, base) ==
  LET below == {q \in DOMAIN f : IsPrefix(base, q) /\ q # base}
  IN [r \in {SubSeq(q, Len(base) + 1, Len(q)) : q \in below} |-> f[base \o r]]

\* the directories an entry can be added to below base, and the free paths there
DirsUnder(f, base) == {q \in DOMAIN f : IsPrefix(base, q) /\ f[q].kind = "dir"}
Addable(f, base) ==
  {p \in {Append(d, <<n>>) : d \in DirsUnder(f, base), n \in Names} : p \notin DOMAIN f}

Mtimes == 1..MaxMtime
Contents == 1..MaxContent
FileEntries == {FileEntry(m, c) : m \in Mtimes, c \in Contents}
DirEntries == {DirEntry(m) : m \in Mtimes}

\* an entry stored without touching its directory (initial states)
Plant(f, p, e) == [q \in DOMAIN f \cup {p} |-> IF q = p THEN e ELSE f[q]]

\* The program never reads the modification time of a directory of source
\* (getmtime is applied to the files the source walk lists), so it is held at 1.
SourceEntries == FileEntries \cup {DirEntry(1)}
ReplicaEntries == FileEntries \cup DirEntries

\* the filesystems got from f by adding one entry below a root
Grown(f) ==
  {Plant(f, p, e) : p \in Addable(f, SourceDir), e \in SourceEntries}
    \cup {Plant(f, p, e) : p \in Addable(f, ReplicaDir), e \in ReplicaEntries}

\* the two root directories and the log directory, empty
Roots == {SourceDir, ReplicaDir, LogDir}
BaseFs == [q \in Roots |-> DirEntry(1)]

\* f without the paths in M and everything below them
Without(f, M) == [q \in {x \in DOMAIN f : \A m \in M : ~IsPrefix(m, x)} |-> f[q]]

\* ------------------------------------------------------------------ state
VARIABLES
  fs,            \* the filesystem
  source,        \* the --source argument
  replica,       \* the --replica argument
  pc,            \* "main", "propagate", "prune", "sleep", "crashed"
  stack,         \* os.walk: what is still to be scanned or yielded
  root,          \* the directory the walk yielded last
  replica_path,  \* root.replace(source, replica, 1) of the propagate loop
  source_path,   \* root.replace(replica, source, 1) of the prune loop
  files,         \* the files of root still to be handled
  dirs,          \* the directories of root still to be handled (prune loop)
  depth,         \* calls of replicate_source on the call stack
  log,           \* the records logged by the pass that is running or ran last
  console,       \* the lines printed since that pass started
  atStart,       \* the filesystem when that pass started
  atPrune,       \* the filesystem when its prune loop started
  passed,        \* a pass has completed before that pass started
  edits,         \* changes made to source since the last pass started
  quiet,         \* that pass started right after a completed one, nothing changed
  wasMirror,     \* the pass before that pass left replica an exact copy of source
  lastMirror,    \* the last completed pass left replica an exact copy of source
  recovering     \* that pass is the first of a restart of the program, after a
                 \* pass that was stopped and had begun with an empty replica

vars == <<fs, source, replica, pc, stack, root, replica_path, source_path, files,
          dirs, depth, log, console, atStart, atPrune, passed, edits, quiet,
          wasMirror, lastMirror, recovering>>

walkVars == <<stack, root, replica_path, source_path, files, dirs>>
histVars == <<atStart, atPrune, passed, edits, quiet, wasMirror, lastMirror, recovering>>

Record(action, path) == [action |-> action, path |-> path]
\* a printed line; the line of a created directory closes its time stamp with
\* two brackets
Line(action, path) ==
  [action |-> action, path |-> path,
   close |-> IF action = "Created directory" THEN "]]" ELSE "]"]
Notice(text) == [action |-> text, path |-> <<>>, close |-> ""]

\* logging.info and print of one applied action
Report(action, path) ==
  /\ log' = Append(log, Record(action, path))
  /\ console' = Append(console, Line(action, path))
PathItem(s) == [t |-> "path", path |-> s, dirs |-> <<>>, files |-> <<>>]
TupleItem(s, dl, fl) == [t |-> "tuple", path |-> s, dirs |-> dl, files |-> fl]

\* BottomUp as the default walk order (topdown=True): top before what is below it
TopDown(top, dl, fl, rest) ==
  <<TupleItem(top, dl, fl)>> \o [i \in 1..Len(dl) |-> PathItem(Join(top, dl[i]))] \o rest

\* os.walk(topdown=False): the directories below top come before top itself
BottomUp(top, dl, fl, rest) ==
  [i \in 1..Len(dl) |-> PathItem(Join(top, dl[i]))] \o <<TupleItem(top, dl, fl)>> \o rest

SourceTree(f) == RelTree(f, Resolve(source))
ReplicaTree(f) == RelTree(f, Resolve(replica))

\* same relative paths with the same kinds in both trees
Corresponds(f) ==
  LET S == SourceTree(f)
      R == ReplicaTree(f)
  IN /\ DOMAIN S = DOMAIN R
     /\ \A r \in DOMAIN S : S[r].kind = R[r].kind

\* and the same content in every file
Mirror(f) ==
  /\ Corresponds(f)
  /\ \A r \in DOMAIN SourceTree(f) :
       SourceTree(f)[r].kind = "file" => ReplicaTree(f)[r].content = SourceTree(f)[r].content

\* fs is f with at most n entries added below the roots, and with any of the
\* three directories missing
RECURSIVE InitialFs(_, _)
InitialFs(f, n) ==
  \/ \E M \in SUBSET Roots : fs = Without(f, M)
  \/ (n > 0 /\ \E g \in Grown(f) : InitialFs(g, n - 1))

InitWith(S, R) ==
  /\ InitialFs(BaseFs, MaxEntries)
  /\ source \in S
  /\ replica \in R
  /\ pc = "main"
  /\ stack = <<>>
  /\ root = <<>>
  /\ replica_path = <<>>
  /\ source_path = <<>>
  /\ files = <<>>
  /\ dirs = <<>>
  /\ depth = 0
  /\ log = <<>>
  /\ console = <<>>
  /\ atStart = fs
  /\ atPrune = fs
  /\ passed = FALSE
  /\ edits = 0
  /\ quiet = FALSE
  /\ wasMirror = FALSE
  /\ lastMirror = FALSE
  /\ recovering = FALSE

Init == InitWith({SourceArg}, {ReplicaArg})
InitRoots == InitWith(SourceArgs, ReplicaArgs)

\* ---------------------------------------------------------------- actions
\* the assignments that start a pass on the filesystem f: the propagate walk
\* begins at source
BeginPass(f) ==
  /\ fs' = f
  /\ pc' = "propagate"
  /\ stack' = <<PathItem(source)>>
  /\ root' = <<>>
  /\ replica_path' = <<>>
  /\ source_path' = <<>>
  /\ files' = <<>>
  /\ dirs' = <<>>
  /\ depth' = depth + 1
  /\ log' = <<>>
  /\ console' = <<>>
  /\ atStart' = f
  /\ atPrune' = f
  /\ quiet' = (passed /\ edits = 0)
  /\ wasMirror' = lastMirror
  /\ edits' = 0
  /\ UNCHANGED <<source, replica, passed, lastMirror>>

\* the program ends in the given state after printing text
EndWith(state, text) ==
  /\ pc' = state
  /\ console' = Append(console, Notice(text))
  /\ UNCHANGED <<fs, source, replica, depth, log>>
  /\ UNCHANGED walkVars
  /\ UNCHANGED histVars

\* an exception that nothing catches: the traceback is not part of console
Raise(state) ==
  /\ pc' = state
  /\ UNCHANGED <<fs, source, replica, depth, log, console>>
  /\ UNCHANGED walkVars
  /\ UNCHANGED histVars

\* FirstMissing without the test of the log directory
FirstMissingNoLog(f, s, r, l) ==
  IF ~Exists(f, s) THEN "The source directory path does not exist"
  ELSE IF ~Exists(f, r) THEN "The replica directory path does not exist"
  ELSE ""

\* the message main prints for the first of the three paths that is missing,
\* "" when all three exist
FirstMissing(f, s, r, l) ==
  IF ~Exists(f, s) THEN "The source directory path does not exist"
  ELSE IF ~Exists(f, r) THEN "The replica directory path does not exist"
  ELSE IF ~Exists(f, l) THEN "The log file path does not exist"
  ELSE ""

\* logging.basicConfig(filename=...): the log file is opened for appending,
\* which creates it when it does not exist
LogFile == Join(LogArg, LogName)
BasicConfigOk(f) == IsDirAt(f, Parent(Resolve(LogFile)))
BasicConfig(f) ==
  IF Exists(f, LogFile) THEN f ELSE Put(f, Resolve(LogFile), FileEntry(Now, Other))

\* main: the three paths are checked in order, the log file is opened, the
\* first pass is called
Main ==
  /\ pc = "main"
  /\ LET missing == FirstMissing(fs, source, replica, LogArg)
     IN IF missing # ""
        THEN EndWith("exited", missing)
        ELSE IF BasicConfigOk(fs)
             THEN /\ BeginPass(BasicConfig(fs))
                  /\ UNCHANGED recovering
             ELSE Raise("crashed")

\* the propagate walk yields the next directory; its replica directory is made
\* when nothing exists at that path
PropagateVisit ==
  /\ pc = "propagate"
  /\ files = <<>>
  /\ stack # <<>>
  /\ LET top == Head(stack).path
         rp == Replace(top, source, replica)
     IN IF ~IsDir(fs, top)
        THEN /\ stack' = Tail(stack)
             /\ UNCHANGED <<fs, pc, root, replica_path, files, log, console>>
        ELSE \E dl \in Orderings(SubdirNames(fs, Resolve(top))),
                fl \in Orderings(NondirNames(fs, Resolve(top))) :
               /\ root' = top
               /\ replica_path' = rp
               /\ files' = fl
               /\ stack' = [i \in 1..Len(dl) |-> PathItem(Join(top, dl[i]))] \o Tail(stack)
               /\ IF Exists(fs, rp)
                  THEN UNCHANGED <<fs, log, console, pc>>
                  ELSE IF MakedirsOk(fs, rp)
                       THEN /\ fs' = Makedirs(fs, rp)
                            /\ Report("Created directory", rp)
                            /\ pc' = pc
                       ELSE /\ pc' = "crashed"
                            /\ UNCHANGED <<fs, log, console>>
  /\ UNCHANGED <<source, replica, depth, source_path, dirs>>
  /\ UNCHANGED histVars

\* one file of the yielded source directory: copy, update or leave
PropagateFile ==
  /\ pc = "propagate"
  /\ files # <<>>
  /\ LET file == Head(files)
         source_file == Join(root, file)
         replica_file == Join(replica_path, file)
     IN /\ files' = Tail(files)
        /\ IF ~Exists(fs, replica_file)
           THEN IF Copy2Ok(fs, source_file, replica_file)
                THEN /\ fs' = Copy2(fs, source_file, replica_file)
                     /\ Report("Created file", replica_file)
                     /\ pc' = pc
                ELSE /\ pc' = "crashed"
                     /\ UNCHANGED <<fs, log, console>>
           ELSE IF ~Exists(fs, source_file)
                THEN /\ pc' = "crashed"
                     /\ UNCHANGED <<fs, log, console>>
                ELSE IF GetMtime(fs, source_file) > GetMtime(fs, replica_file)
                     THEN IF Copy2Ok(fs, source_file, replica_file)
                          THEN /\ fs' = Copy2(fs, source_file, replica_file)
                               /\ Report("Updated file", replica_file)
                               /\ pc' = pc
                          ELSE /\ pc' = "crashed"
                               /\ UNCHANGED <<fs, log, console>>
                     ELSE UNCHANGED <<fs, log, console, pc>>
  /\ UNCHANGED <<source, replica, depth, stack, root, replica_path, source_path, dirs>>
  /\ UNCHANGED histVars

\* the propagate walk is exhausted: the prune walk begins at replica
PropagateDone ==
  /\ pc = "propagate"
  /\ files = <<>>
  /\ stack = <<>>
  /\ pc' = "prune"
  /\ stack' = <<PathItem(replica)>>
  /\ root' = <<>>
  /\ replica_path' = <<>>
  /\ atPrune' = fs
  /\ UNCHANGED <<fs, source, replica, depth, source_path, files, dirs, log, console>>
  /\ UNCHANGED <<atStart, passed, edits, quiet, wasMirror, lastMirror, recovering>>

\* the bottom-up walk: a directory is scanned when the walk reaches it and
\* yielded after the directories below it
PruneVisit ==
  /\ pc = "prune"
  /\ files = <<>>
  /\ dirs = <<>>
  /\ stack # <<>>
  /\ LET item == Head(stack)
         top == item.path
     IN IF item.t = "tuple"
        THEN /\ root' = top
             /\ source_path' = Replace(top, replica, source)
             /\ files' = item.files
             /\ dirs' = item.dirs
             /\ stack' = Tail(stack)
        ELSE IF ~IsDir(fs, top)
             THEN /\ stack' = Tail(stack)
                  /\ UNCHANGED <<root, source_path, files, dirs>>
             ELSE \E dl \in Orderings(SubdirNames(fs, Resolve(top))),
                     fl \in Orderings(NondirNames(fs, Resolve(top))) :
                    /\ stack' = BottomUp(top, dl, fl, Tail(stack))
                    /\ UNCHANGED <<root, source_path, files, dirs>>
  /\ UNCHANGED <<fs, source, replica, depth, pc, replica_path, log, console>>
  /\ UNCHANGED histVars

\* one file of the yielded replica directory: removed when source has no such path
PruneFile ==
  /\ pc = "prune"
  /\ files # <<>>
  /\ LET file == Head(files)
         replica_file == Join(root, file)
         source_file == Join(source_path, file)
     IN /\ files' = Tail(files)
        /\ IF ~Exists(fs, source_file)
           THEN IF RemoveOk(fs, replica_file)
                THEN /\ fs' = Remove(fs, replica_file)
                     /\ Report("Deleted file", replica_file)
                     /\ pc' = pc
                ELSE /\ pc' = "crashed"
                     /\ UNCHANGED <<fs, log, console>>
           ELSE UNCHANGED <<fs, log, console, pc>>
  /\ UNCHANGED <<source, replica, depth, stack, root, replica_path, source_path, dirs>>
  /\ UNCHANGED histVars

\* one directory of the yielded replica directory, after its files
PruneDir ==
  /\ pc = "prune"
  /\ files = <<>>
  /\ dirs # <<>>
  /\ LET directory == Head(dirs)
         replica_dir == Join(root, directory)
         source_dir == Join(source_path, directory)
     IN /\ dirs' = Tail(dirs)
        /\ IF ~Exists(fs, source_dir)
           THEN IF RmtreeOk(fs, replica_dir)
                THEN /\ fs' = Rmtree(fs, replica_dir)
                     /\ Report("Deleted directory", replica_dir)
                     /\ pc' = pc
                ELSE /\ pc' = "crashed"
                     /\ UNCHANGED <<fs, log, console>>
           ELSE UNCHANGED <<fs, log, console, pc>>
  /\ UNCHANGED <<source, replica, depth, stack, root, replica_path, source_path, files>>
  /\ UNCHANGED histVars

\* both walks are exhausted: the pass is complete and the interval sleep begins
PruneDone ==
  /\ pc = "prune"
  /\ files = <<>>
  /\ dirs = <<>>
  /\ stack = <<>>
  /\ pc' = "sleep"
  /\ root' = <<>>
  /\ source_path' = <<>>
  /\ passed' = TRUE
  /\ lastMirror' = Mirror(fs)
  /\ UNCHANGED <<fs, source, replica, depth, stack, replica_path, files, dirs, log, console>>
  /\ UNCHANGED <<atStart, atPrune, edits, quiet, wasMirror, recovering>>

\* the sleep returns and replicate_source calls itself: the next pass
Tick ==
  /\ pc = "sleep"
  /\ IF depth < RecursionLimit
     THEN /\ BeginPass(fs)
          /\ recovering' = FALSE
     ELSE Raise("crashed")

\* ---------------------------------------------- the user, between two passes
EntriesUnder(f, base) == {q \in DOMAIN f : IsPrefix(base, q) /\ q # base}

\* a change by the user: the records and snapshots of the finished pass are dropped
EditFrame ==
  /\ edits < MaxEdits
  /\ edits' = edits + 1
  /\ log' = <<>>
  /\ console' = <<>>
  /\ atStart' = fs'
  /\ atPrune' = fs'
  /\ quiet' = FALSE
  /\ wasMirror' = FALSE
  /\ recovering' = FALSE
  /\ UNCHANGED <<source, replica, pc, depth, passed, lastMirror>>
  /\ UNCHANGED walkVars

CreateInSource ==
  /\ pc = "sleep"
  /\ Cardinality(EntriesUnder(fs, SourceDir) \cup EntriesUnder(fs, ReplicaDir)) < MaxEntries
  /\ \E p \in Addable(fs, Resolve(source)), e \in SourceEntries : fs' = Plant(fs, p, e)
  /\ EditFrame

ModifyInSource ==
  /\ pc = "sleep"
  /\ \E p \in EntriesUnder(fs, Resolve(source)), e \in FileEntries :
       /\ fs[p].kind = "file"
       /\ e # fs[p]
       /\ fs' = [fs EXCEPT ![p] = e]
  /\ EditFrame

DeleteInSource ==
  /\ pc = "sleep"
  /\ \E p \in EntriesUnder(fs, Resolve(source)) :
       fs' = [q \in {x \in DOMAIN fs : ~IsPrefix(p, x)} |-> fs[q]]
  /\ EditFrame

Next ==
  \/ Main
  \/ PropagateVisit
  \/ PropagateFile
  \/ PropagateDone
  \/ PruneVisit
  \/ PruneFile
  \/ PruneDir
  \/ PruneDone
  \/ Tick
  \/ CreateInSource
  \/ ModifyInSource
  \/ DeleteInSource

Spec == Init /\ [][Next]_vars
SpecRoots == InitRoots /\ [][Next]_vars

\* ------------------------------------- the user, while a pass is running
\* a file of source that the walk has listed and the loop has not reached yet
\* is deleted
VanishInSource ==
  /\ pc = "propagate"
  /\ \E i \in 1..Len(files) :
       LET p == Resolve(Join(root, files[i]))
       IN /\ IsFileAt(fs, p)
          /\ fs' = Without(fs, {p})
  /\ UNCHANGED <<source, replica, pc, depth, log, console>>
  /\ UNCHANGED walkVars
  /\ UNCHANGED histVars

NextRace == Next \/ VanishInSource
SpecRace == Init /\ [][NextRace]_vars

\* --------------------------------------- the program is stopped, restarted
\* the file step at the head of files is one that copies
CopyStarts ==
  /\ pc = "propagate"
  /\ files # <<>>
  /\ LET source_file == Join(root, Head(files))
         replica_file == Join(replica_path, Head(files))
     IN /\ Copy2Ok(fs, source_file, replica_file)
        /\ IF Exists(fs, replica_file)
           THEN GetMtime(fs, source_file) > GetMtime(fs, replica_file)
           ELSE TRUE

Stopped(f) ==
  /\ fs' = f
  /\ pc' = "stopped"
  /\ UNCHANGED <<source, replica, depth, log, console>>
  /\ UNCHANGED walkVars
  /\ UNCHANGED histVars

\* the process is killed between two steps of a pass
Kill ==
  /\ pc \in {"propagate", "prune"}
  /\ Stopped(fs)

\* the process is killed inside shutil.copy2, after copyfile has begun to write
\* the target and before copystat: the target holds part of the content and
\* the time of the write
KillInCopy ==
  /\ CopyStarts
  /\ LET source_file == Join(root, Head(files))
         replica_file == Join(replica_path, Head(files))
     IN Stopped(Put(fs, Resolve(Copy2Target(fs, source_file, replica_file)),
                    FileEntry(Now, Other)))

\* the program is started again with the same arguments
Restart ==
  /\ pc = "stopped"
  /\ pc' = "main"
  /\ stack' = <<>>
  /\ root' = <<>>
  /\ replica_path' = <<>>
  /\ source_path' = <<>>
  /\ files' = <<>>
  /\ dirs' = <<>>
  /\ depth' = 0
  /\ log' = <<>>
  /\ console' = <<>>
  /\ atStart' = fs
  /\ atPrune' = fs
  /\ passed' = FALSE
  /\ edits' = 0
  /\ quiet' = FALSE
  /\ wasMirror' = FALSE
  /\ lastMirror' = FALSE
  /\ recovering' = (EntriesUnder(atStart, Resolve(replica)) = {})
  /\ UNCHANGED <<fs, source, replica>>

NextStop == Next \/ Kill \/ KillInCopy \/ Restart
SpecStop == Init /\ [][NextStop]_vars

\* ------------------------------------------------- an interrupt (Ctrl+C)
StoppingNotice == "Stopping synchronization..."

\* KeyboardInterrupt is raised in the innermost call of replicate_source.  In
\* the sleep it is inside that call's try.  In a pass it is outside that
\* call's try and inside the try of the call that made it, if there is one:
\* the first call was made by main, outside any try.
Interrupt ==
  /\ pc \in {"propagate", "prune", "sleep"}
  /\ IF pc = "sleep" \/ depth > 1
     THEN /\ pc' = "exited"
          /\ console' = Append(console, Notice(StoppingNotice))
          /\ depth' = 0
     ELSE /\ pc' = "interrupted"
          /\ UNCHANGED <<console, depth>>
  /\ UNCHANGED <<fs, source, replica, log>>
  /\ UNCHANGED walkVars
  /\ UNCHANGED histVars

NextInt == Next \/ Interrupt
SpecInt == Init /\ [][NextInt]_vars

TypeOK ==
  /\ pc \in {"main", "propagate", "prune", "sleep", "exited", "crashed",
            "interrupted", "stopped"}
  /\ depth \in 0..RecursionLimit
  /\ \A p \in DOMAIN fs : Len(p) > 1 => IsDirAt(fs, Parent(p))

\* ------------------------------------------------------------- properties
RelOf(q, base) == SubSeq(q, Len(base) + 1, Len(q))
PassDone == pc = "sleep" /\ edits = 0
Deletes == {"Deleted file", "Deleted directory"}
Creates == {"Created file", "Created directory"}

\* C1: after a completed pass the two trees have the same relative paths with
\* the same kinds, whatever the two trees were when the pass started (a file
\* facing a directory included).
C1_Correspondence == PassDone => Corresponds(fs)

\* C2: when the pass before left replica an exact copy of source and the user
\* then changed source, one completed pass makes replica have the paths, kinds
\* and file contents source had when that pass started.
C2_Convergence ==
  (PassDone /\ wasMirror) =>
     LET S == SourceTree(atStart)
         R == ReplicaTree(fs)
     IN /\ DOMAIN S = DOMAIN R
        /\ \A r \in DOMAIN S : /\ S[r].kind = R[r].kind
                               /\ S[r].kind = "file" => S[r].content = R[r].content

\* C3: after a completed pass every path that is a file in both trees has the
\* content of the source file, whatever the replica file was before.
C3_SourceWins ==
  PassDone =>
     \A r \in DOMAIN SourceTree(fs) \cap DOMAIN ReplicaTree(fs) :
        (SourceTree(fs)[r].kind = "file" /\ ReplicaTree(fs)[r].kind = "file")
          => ReplicaTree(fs)[r].content = SourceTree(fs)[r].content

\* C4: a pass that starts right after a completed pass, nothing having changed,
\* logs nothing and leaves the filesystem as it found it.
C4_Idempotence == quiet => (log = <<>> /\ fs = atStart)

\* the part of the filesystem at and below the source root
SourcePart(f) == [q \in {x \in DOMAIN f : IsPrefix(Resolve(source), x)} |-> f[q]]

\* C5: no step of the engine changes the entries at or below the source root:
\* their paths, kinds, contents and modification times stay as they are.
\* and no record names a path at or below the source root.
C5_NoSourceMutation ==
  [][\/ edits' = edits + 1
     \/ /\ SourcePart(fs') = SourcePart(fs)
        /\ \A i \in 1..Len(log') : ~IsPrefix(Resolve(source), Resolve(log'[i].path))]_vars

\* a pass has created, updated and deleted entries while source held a file
C5_Witness ==
  /\ PassDone
  /\ \E i \in 1..Len(log) : log[i].action \in Creates \cup {"Updated file"}
  /\ \E i \in 1..Len(log) : log[i].action \in Deletes
  /\ \E r \in DOMAIN SourceTree(fs) : SourceTree(fs)[r].kind = "file"

\* the entries of replica, when the prune loop started, that source has no path for
Orphans ==
  {q \in EntriesUnder(atPrune, Resolve(replica)) :
     RelOf(q, Resolve(replica)) \notin DOMAIN SourceTree(atPrune)}

DeletionsOf(l, q) == {i \in 1..Len(l) : l[i].action \in Deletes /\ Resolve(l[i].path) = q}

\* C6: when the prune loop ends, every entry replica held at its start that
\* source has no path for is gone and has exactly one Deleted record, of its
\* kind; and no removal of the prune loop fails on an entry already gone.
C6_DeletionScope ==
  [][/\ (pc = "prune" /\ pc' = "sleep") =>
           \A q \in Orphans :
              /\ q \notin DOMAIN fs'
              /\ Cardinality(DeletionsOf(log', q)) = 1
              /\ \A i \in DeletionsOf(log', q) :
                    log'[i].action = (IF atPrune[q].kind = "file" THEN "Deleted file"
                                                                  ELSE "Deleted directory")
     /\ pc = "prune" => pc' # "crashed"]_vars

\* a pass has pruned a directory and an entry inside it, and kept an entry
C6_Witness ==
  /\ PassDone
  /\ \E q \in Orphans : atPrune[q].kind = "dir" /\ \E x \in Orphans : x # q /\ IsPrefix(q, x)
  /\ EntriesUnder(fs, Resolve(replica)) # {}

\* C7: the prune loop removes no entry of replica whose relative path exists
\* in source, whatever it removed before and however the roots are spelled.
C7_PurelyBySource ==
  [][pc = "prune" =>
       \A q \in DOMAIN fs \ DOMAIN fs' :
          IsPrefix(Resolve(replica), q) =>
             RelOf(q, Resolve(replica)) \notin DOMAIN SourceTree(fs)]_vars

\* the directories of source, when the pass started, that replica had no path for
MissingDirs ==
  {r \in DOMAIN SourceTree(atStart) :
     SourceTree(atStart)[r].kind = "dir" /\ r \notin DOMAIN ReplicaTree(atStart)}

\* every level between the replica root and the path of record j that did not
\* exist when the pass started has an earlier Created directory record
CreatedInOrder(l, j) ==
  LET q == Resolve(l[j].path)
  IN \A k \in (Len(Resolve(replica)) + 1)..(Len(q) - 1) :
        SubSeq(q, 1, k) \notin DOMAIN atStart =>
           \E i \in 1..(j - 1) : /\ l[i].action = "Created directory"
                                 /\ Resolve(l[i].path) = SubSeq(q, 1, k)

\* the propagate loop is about to copy the file at the head of files
CopyDue ==
  /\ pc = "propagate"
  /\ files # <<>>
  /\ LET source_file == Join(root, Head(files))
         replica_file == Join(replica_path, Head(files))
     IN \/ ~Exists(fs, replica_file)
        \/ GetMtime(fs, source_file) > GetMtime(fs, replica_file)

\* C8: every Created record comes after the Created directory record of each
\* missing level above it; when the propagate loop ends every directory that
\* was missing has exactly one Created directory record; and every copy is
\* made into a replica directory that exists.
C8_CreationOrder ==
  [][/\ \A j \in 1..Len(log') : log'[j].action \in Creates => CreatedInOrder(log', j)
     /\ (pc = "propagate" /\ pc' = "prune") =>
           \A r \in MissingDirs :
              Cardinality({i \in 1..Len(log') :
                             /\ log'[i].action = "Created directory"
                             /\ Resolve(log'[i].path) = Resolve(replica) \o r}) = 1
     /\ CopyDue => IsDirAt(fs, Parent(Resolve(Join(replica_path, Head(files)))))]_vars

\* C9: every Deleted directory record comes after a Deleted record of each
\* entry the directory held when the prune loop started, and rmtree is applied
\* to a directory that holds nothing.
C9_DeletionOrder ==
  [][/\ \A j \in 1..Len(log') :
           log'[j].action = "Deleted directory" =>
              \A x \in EntriesUnder(atPrune', Resolve(log'[j].path)) :
                 \E i \in 1..(j - 1) : log'[i].action \in Deletes /\ Resolve(log'[i].path) = x
     /\ (pc = "prune" /\ files = <<>> /\ dirs # <<>> /\ fs' # fs) =>
           EntriesUnder(fs, Resolve(Join(root, Head(dirs)))) = {}]_vars

\* a pass has deleted a directory after the entries it held
C9_Witness ==
  /\ PassDone
  /\ \E j \in 1..Len(log) :
        /\ log[j].action = "Deleted directory"
        /\ EntriesUnder(atPrune, Resolve(log[j].path)) # {}

\* C10: the step for the source file at relative path P: replica has nothing at
\* P, the file is copied and Created file is logged; else the source file is
\* newer than the replica file, the replica file gets its content and time and
\* Updated file is logged; else nothing changes and nothing is logged.
C10_FileDecision ==
  [][(pc = "propagate" /\ files # <<>>) =>
       LET src == Resolve(Join(root, Head(files)))
           dst == Resolve(replica) \o RelOf(src, Resolve(source))
           copied == /\ dst \in DOMAIN fs'
                     /\ fs'[dst] = FileEntry(fs[src].mtime, fs[src].content)
                     /\ Len(log') = Len(log) + 1
                     /\ Resolve(log'[Len(log')].path) = dst
       IN IF dst \notin DOMAIN fs
          THEN copied /\ log'[Len(log')].action = "Created file"
          ELSE IF fs[src].mtime > fs[dst].mtime
               THEN copied /\ log'[Len(log')].action = "Updated file"
               ELSE fs' = fs /\ log' = log]_vars

\* no relative path holds a file in one tree and a directory in the other
NoConflict(f) ==
  \A r \in DOMAIN SourceTree(f) \cap DOMAIN ReplicaTree(f) :
     SourceTree(f)[r].kind = ReplicaTree(f)[r].kind

\* C11: an error local to one entry (a listed source file that is gone when
\* the loop reaches it) does not end the pass: the step that meets it leaves
\* the program in the pass.  Stated for passes that begin without a file
\* facing a directory.
C11_EntryErrorsSkipped ==
  [][(pc \in {"propagate", "prune"} /\ NoConflict(atStart)) => pc' # "crashed"]_vars

\* C12: the first complete pass after a pass that was stopped, with source as
\* it was, leaves replica an exact copy of source.  Stated for a stopped pass
\* that had begun with an empty replica.
C12_Recovery == (PassDone /\ recovering) => Mirror(fs)

\* the message for the first of source, replica and the log directory that the
\* filesystem does not hold, "" when it holds all three
Expected ==
  IF Resolve(source) \notin DOMAIN fs THEN "The source directory path does not exist"
  ELSE IF Resolve(replica) \notin DOMAIN fs THEN "The replica directory path does not exist"
  ELSE IF LogDir \notin DOMAIN fs THEN "The log file path does not exist"
  ELSE ""

\* C13: when one of the three paths is missing, main prints the message of the
\* first missing one and ends: no pass runs, the filesystem is left as it was
\* and holds no log file; when all three exist, the first pass starts.
C13_StartupValidation ==
  [][pc = "main" =>
       IF Expected # ""
       THEN /\ pc' = "exited"
            /\ console' = <<Notice(Expected)>>
            /\ fs' = fs
            /\ Resolve(LogFile) \notin DOMAIN fs'
            /\ depth' = 0
            /\ log' = <<>>
       ELSE /\ pc' = "propagate"
            /\ depth' = 1]_vars

\* main has ended on a missing log directory, with both roots present and
\* entries in them
C13_Witness ==
  /\ pc = "exited"
  /\ console = <<Notice("The log file path does not exist")>>
  /\ LogDir \notin DOMAIN fs
  /\ EntriesUnder(fs, SourceDir) # {}
  /\ EntriesUnder(fs, ReplicaDir) # {}

\* C14: an interrupt, in the sleep or while a pass is running (the first pass
\* included), ends the program cleanly: the stopping notice is printed once,
\* every call has returned, the filesystem is as it was, and no step follows.
C14_CleanStop ==
  [][/\ (pc \in {"propagate", "prune", "sleep"} /\ pc' \in {"exited", "interrupted"}) =>
           /\ pc' = "exited"
           /\ console' = Append(console, Notice(StoppingNotice))
           /\ \A i \in 1..Len(console) : console[i] # Notice(StoppingNotice)
           /\ depth' = 0
           /\ fs' = fs
     /\ pc = "exited" => pc' = "exited"]_vars

\* the part of C14 about the sleep
InterruptedSleepStopsCleanly ==
  [][(pc = "sleep" /\ pc' \in {"exited", "interrupted"}) =>
        (pc' = "exited" /\ console' = Append(console, Notice(StoppingNotice)) /\ depth' = 0)]_vars

\* C15: when the sleep that follows a completed pass ends, the next pass
\* starts, however many passes have run: the loop does not end by itself.
C15_RepeatsUntilStopped ==
  [][(pc = "sleep" /\ pc' # "sleep") => (pc' = "propagate" /\ depth' = depth + 1)]_vars

\* the change of the filesystem from f to g is the action of the record rec
Applied(f, g, rec) ==
  LET p == Resolve(rec.path)
  IN CASE rec.action = "Created directory" -> p \notin DOMAIN f /\ IsDirAt(g, p)
       [] rec.action = "Created file" -> p \notin DOMAIN f /\ IsFileAt(g, p)
       [] rec.action = "Updated file" -> IsFileAt(f, p) /\ IsFileAt(g, p) /\ g[p] # f[p]
       [] rec.action = "Deleted file" -> IsFileAt(f, p) /\ p \notin DOMAIN g
       [] rec.action = "Deleted directory" -> IsDirAt(f, p) /\ p \notin DOMAIN g
       [] OTHER -> FALSE

\* a step of a pass that changes the filesystem appends one record and one
\* line, both of the action that was applied; any other step appends nothing
ReportedAsApplied ==
  IF fs' = fs
  THEN log' = log /\ console' = console
  ELSE /\ Len(log') = Len(log) + 1
       /\ SubSeq(log', 1, Len(log)) = log
       /\ Len(console') = Len(console) + 1
       /\ SubSeq(console', 1, Len(console)) = console
       /\ console'[Len(console')].action = log'[Len(log')].action
       /\ console'[Len(console')].path = log'[Len(log')].path
       /\ Applied(fs, fs', log'[Len(log')])

\* C16: every create, update or delete a pass applies to replica is followed,
\* before the next one, by exactly one log record and one console line of that
\* action and path, and nothing is reported that was not applied.
C16_ActionReporting ==
  [][(pc \in {"propagate", "prune"}) => ReportedAsApplied]_vars

\* C16 for passes that begin without a file facing a directory
ReportingWithoutConflict ==
  [][(pc \in {"propagate", "prune"} /\ NoConflict(atStart)) => ReportedAsApplied]_vars

\* C17: the replica path computed for the source directory the propagate walk
\* has yielded is the replica root followed by the directory's path relative
\* to the source root, and likewise for the source path computed in the prune
\* walk, whichever way the two roots are spelled.
C17_PathMapping ==
  /\ (pc = "propagate" /\ root # <<>>) =>
        Resolve(replica_path) = Resolve(replica) \o RelOf(Resolve(root), Resolve(source))
  /\ (pc = "prune" /\ root # <<>>) =>
        Resolve(source_path) = Resolve(source) \o RelOf(Resolve(root), Resolve(replica))

\* the paths whose entry differs between f and g
Touched(f, g) ==
  {q \in DOMAIN f \cup DOMAIN g : q \notin DOMAIN f \/ q \notin DOMAIN g \/ f[q] # g[q]}

\* C18: every path a step of a pass creates, overwrites or deletes is the
\* replica root or lies below it, whichever way the two roots are spelled.
C18_WritesInsideReplica ==
  [][(pc \in {"propagate", "prune"}) =>
        \A q \in Touched(fs, fs') : IsPrefix(Resolve(replica), q)]_vars

\* every file of source has a replica file at its relative path that is not
\* older, and of the same time when the pass created or updated it
TimesInOrder ==
  LET S == SourceTree(fs)
      R == ReplicaTree(fs)
  IN \A r \in DOMAIN S :
       S[r].kind = "file" =>
          /\ r \in DOMAIN R
          /\ R[r].kind = "file"
          /\ R[r].mtime >= S[r].mtime
          /\ (\E i \in 1..Len(log) :
                /\ log[i].action \in {"Created file", "Updated file"}
                /\ Resolve(log[i].path) = Resolve(replica) \o r) => R[r].mtime = S[r].mtime

\* C19: after every completed pass every file of source has a replica file at
\* the same relative path whose modification time is not below the source
\* file's, and equal to it when the pass created or updated the file.
C19_MtimeInvariant == PassDone => TimesInOrder

\* C19 for passes that begin without a file facing a directory
TimesInOrderWithoutConflict == (PassDone /\ NoConflict(atStart)) => TimesInOrder

====
